---- MODULE Spec2Model ----
(***************************************************************************)
(* Multi-exchange order-flow consensus engine                              *)
(* (server/python/multi_exchange_orderflow.py) and the trade footprint of  *)
(* server/python/binance_orderflow.py.                                     *)
(*                                                                         *)
(* Numbers.  The program computes in floating point; the model computes    *)
(* the same expressions exactly, in fixed point:                           *)
(*   - priorities are hundredths (1.0 -> 100, 0.85 -> 85);                 *)
(*   - candle volumes are hundredths of the venue's raw volume unit, so    *)
(*     that volume * 0.5, volume * 0.55 and volume * 0.45 are integers;    *)
(*   - a consensus row's delta is kept in units of 1 / DeltaScale of a     *)
(*     candle delta (DeltaScale = 100 * 60: the priority hundredths times  *)
(*     the least common multiple of the possible divisors 1..6);           *)
(*   - timestamps are shortened epochs that fit TLC's integers: a value    *)
(*     above TS_MS_THRESHOLD is in milliseconds, a value at or below it    *)
(*     is in seconds, exactly as the program tells them apart.             *)
(***************************************************************************)
EXTENDS Integers, Sequences, FiniteSets, TLC

VARIABLES
    mode,               \* which entry point the behaviour exercises
    next_venue,         \* position in FetchOrder of the next venue to fetch
    pending,            \* venue whose history call is in flight, or "none"
    attempts,           \* history calls issued per venue in this run
    all_metadata,       \* analyze_multi_exchange_orderflow: all_metadata
    all_exchange_data,  \* analyze_multi_exchange_orderflow: all_exchange_data
    aggregated,         \* aggregate_multi_exchange_data's return value
    output,             \* the value analyze_multi_exchange_orderflow returns
    call_args,          \* arguments of the function a behaviour calls directly
    call_ret,           \* what that function has returned so far
    call_locals         \* local variables of a function that runs in steps

\* The variables of a run of analyze_multi_exchange_orderflow, which the
\* directly called functions leave alone.
run_vars == <<next_venue, pending, attempts, all_metadata,
              all_exchange_data, aggregated, output>>

vars == <<mode, next_venue, pending, attempts, all_metadata,
          all_exchange_data, aggregated, output, call_args, call_ret,
          call_locals>>

(***************************************************************************)
(* Configuration                                                           *)
(***************************************************************************)
EXCHANGES ==
    [binanceus |-> [id |-> "binanceus", name |-> "Binance US", priority |-> 100, has_taker_volume |-> TRUE],
     okx       |-> [id |-> "okx",       name |-> "OKX",        priority |-> 90,  has_taker_volume |-> TRUE],
     gateio    |-> [id |-> "gateio",    name |-> "Gate.io",    priority |-> 85,  has_taker_volume |-> FALSE],
     kraken    |-> [id |-> "kraken",    name |-> "Kraken",     priority |-> 80,  has_taker_volume |-> FALSE],
     kucoin    |-> [id |-> "kucoin",    name |-> "KuCoin",     priority |-> 75,  has_taker_volume |-> FALSE],
     coinbase  |-> [id |-> "coinbase",  name |-> "Coinbase",   priority |-> 70,  has_taker_volume |-> FALSE]]

\* Iteration order of the EXCHANGES dict (insertion order).
ExchangeOrder == <<"binanceus", "okx", "gateio", "kraken", "kucoin", "coinbase">>

ExchangeIds == DOMAIN EXCHANGES

\* len(EXCHANGES)
NumExchanges == Cardinality(ExchangeIds)

\* DIVERGENCE_THRESHOLD = 0.20, in hundredths
DIVERGENCE_THRESHOLD == 20

MIN_EXCHANGES_REQUIRED == 2

\* "if ts > 10000000000: ts = ts // 1000"; shortened epoch, see the header
TS_MS_THRESHOLD == 10000

MS_PER_SECOND == 1000

\* Units of a consensus row's delta per unit of candle delta.
DeltaScale == 100 * 60

(***************************************************************************)
(* Sequence helpers                                                        *)
(***************************************************************************)
RECURSIVE SumSeq(_)
SumSeq(s) == IF s = <<>> THEN 0 ELSE Head(s) + SumSeq(Tail(s))

Reverse(s) == [i \in 1..Len(s) |-> s[Len(s) + 1 - i]]

\* The members of a set of integers in ascending order: sorted(...)
RECURSIVE SortedSeq(_)
SortedSeq(S) ==
    IF S = {} THEN <<>>
    ELSE LET m == CHOOSE a \in S : \A b \in S : a <= b
         IN  <<m>> \o SortedSeq(S \ {m})

(***************************************************************************)
(* Venue fetchers.  A venue's answer to the history call is either         *)
(* [kind |-> "raise"] (the request, the decoding or the parsing raised:    *)
(* connection error, timeout, HTTP error, malformed body) or               *)
(* [kind |-> "data", rows |-> <<...>>], the decoded list of raw candles.   *)
(* A raw candle is [ts, open, close, volume, taker_buy]; high and low are  *)
(* copied through by the program and read by nothing downstream.           *)
(***************************************************************************)
NewMetadata(exchange_id) ==
    [exchange         |-> EXCHANGES[exchange_id].name,
     exchange_id      |-> exchange_id,
     success          |-> FALSE,
     candles_count    |-> 0,
     error            |-> "None",
     response_time_ms |-> 0,
     data_quality     |-> "unknown"]

\* One parsed candle of fetch_binance_ohlcv_with_taker_volume.
BinanceCandle(kline) ==
    LET volume            == 100 * kline.volume
        taker_buy_volume  == 100 * kline.taker_buy
        taker_sell_volume == volume - taker_buy_volume
    IN  [timestamp   |-> kline.ts,
         open        |-> kline.open,
         close       |-> kline.close,
         volume      |-> volume,
         buy_volume  |-> taker_buy_volume,
         sell_volume |-> taker_sell_volume,
         delta       |-> taker_buy_volume - taker_sell_volume]

\* Variant: the sell share is 0.45 whatever the buy share.
OkxCandle_FixedSellShare(kline) ==
    LET volume      == 100 * kline.volume
        buy_ratio   == IF kline.close >= kline.open THEN 55 ELSE 45
        buy_volume  == (volume * buy_ratio) \div 100
        sell_volume == (volume * 45) \div 100
    IN  [timestamp   |-> kline.ts,
         open        |-> kline.open,
         close       |-> kline.close,
         volume      |-> volume,
         buy_volume  |-> buy_volume,
         sell_volume |-> sell_volume,
         delta       |-> buy_volume - sell_volume]

\* One parsed candle of fetch_okx_ohlcv_with_taker_volume.
OkxCandle(kline) ==
    LET volume      == 100 * kline.volume
        buy_ratio   == IF kline.close >= kline.open THEN 55 ELSE 45
        buy_volume  == (volume * buy_ratio) \div 100
        sell_volume == (volume * (100 - buy_ratio)) \div 100
    IN  [timestamp   |-> kline.ts,
         open        |-> kline.open,
         close       |-> kline.close,
         volume      |-> volume,
         buy_volume  |-> buy_volume,
         sell_volume |-> sell_volume,
         delta       |-> buy_volume - sell_volume]

\* Variant: the split follows the candle's direction, as for OKX.
GenericCandle_PriceHeuristic(candle) ==
    LET volume      == 100 * candle.volume
        buy_ratio   == IF candle.close >= candle.open THEN 55 ELSE 45
        buy_volume  == (volume * buy_ratio) \div 100
        sell_volume == (volume * (100 - buy_ratio)) \div 100
    IN  [timestamp   |-> candle.ts,
         open        |-> candle.open,
         close       |-> candle.close,
         volume      |-> volume,
         buy_volume  |-> buy_volume,
         sell_volume |-> sell_volume,
         delta       |-> buy_volume - sell_volume]

\* One parsed candle of fetch_ohlcv_from_exchange.
GenericCandle(candle) ==
    LET volume      == 100 * candle.volume
        buy_volume  == (volume * 50) \div 100
        sell_volume == (volume * 50) \div 100
    IN  [timestamp   |-> candle.ts,
         open        |-> candle.open,
         close       |-> candle.close,
         volume      |-> volume,
         buy_volume  |-> buy_volume,
         sell_volume |-> sell_volume,
         delta       |-> buy_volume - sell_volume]

\* The except branch shared by the three fetchers.
FetchRaised(exchange_id, rt) ==
    [candles  |-> <<>>,
     metadata |-> [NewMetadata(exchange_id) EXCEPT
                       !.response_time_ms = rt,
                       !.error = "exception",
                       !.data_quality = "error"]]

\* The test that lets a venue's answer count as a success:
\* "if data and len(data) > 0".
HasCandles(rows) == Len(rows) > 0

fetch_binance_ohlcv_with_taker_volume(resp, rt) ==
    IF resp.kind = "raise" THEN FetchRaised("binanceus", rt)
    ELSE LET data == resp.rows
             md   == [NewMetadata("binanceus") EXCEPT
                          !.response_time_ms = rt,
                          !.candles_count = Len(data)]
         IN  IF HasCandles(data)
             THEN [candles  |-> [i \in 1..Len(data) |-> BinanceCandle(data[i])],
                   metadata |-> [md EXCEPT !.success = TRUE, !.data_quality = "valid"]]
             ELSE [candles  |-> <<>>,
                   metadata |-> [md EXCEPT !.error = "No candles returned"]]

\* OKX answers newest first; the candles are parsed from reversed(data).
fetch_okx_ohlcv_with_taker_volume(resp, rt) ==
    IF resp.kind = "raise" THEN FetchRaised("okx", rt)
    ELSE LET data == resp.rows
             md   == [NewMetadata("okx") EXCEPT !.response_time_ms = rt]
         IN  IF HasCandles(data)
             THEN [candles  |-> [i \in 1..Len(data) |-> OkxCandle(Reverse(data)[i])],
                   metadata |-> [md EXCEPT !.candles_count = Len(data),
                                           !.success = TRUE,
                                           !.data_quality = "valid"]]
             ELSE [candles  |-> <<>>,
                   metadata |-> [md EXCEPT !.error = "No candles returned"]]

fetch_ohlcv_from_exchange(exchange_id, resp, rt) ==
    IF resp.kind = "raise" THEN FetchRaised(exchange_id, rt)
    ELSE LET ohlcv == resp.rows
             md    == [NewMetadata(exchange_id) EXCEPT
                           !.response_time_ms = rt,
                           !.candles_count = Len(ohlcv)]
         IN  IF HasCandles(ohlcv)
             THEN [candles  |-> [i \in 1..Len(ohlcv) |-> GenericCandle(ohlcv[i])],
                   metadata |-> [md EXCEPT !.success = TRUE, !.data_quality = "valid"]]
             ELSE [candles  |-> <<>>,
                   metadata |-> [md EXCEPT !.error = "No candles returned",
                                           !.data_quality = "empty"]]

\* The fetcher analyze_multi_exchange_orderflow calls for each venue.
FetchVenue(exchange_id, resp, rt) ==
    CASE exchange_id = "binanceus" -> fetch_binance_ohlcv_with_taker_volume(resp, rt)
      [] exchange_id = "okx"       -> fetch_okx_ohlcv_with_taker_volume(resp, rt)
      [] OTHER                     -> fetch_ohlcv_from_exchange(exchange_id, resp, rt)

(***************************************************************************)
(* aggregate_multi_exchange_data                                           *)
(* all_exchange_data is a function from the venues that succeeded to their *)
(* candle lists; the dict is filled, and so iterated, in ExchangeOrder.    *)
(***************************************************************************)
\* "Normalize to seconds"
NormalizeTs(ts) == IF ts > TS_MS_THRESHOLD THEN ts \div MS_PER_SECOND ELSE ts

\* Variant: only the timestamps every venue reported are kept.
AllTimestamps_Common(data) ==
    {t \in UNION {{NormalizeTs(data[e][i].timestamp) : i \in 1..Len(data[e])} : e \in DOMAIN data} :
        \A e \in DOMAIN data : \E i \in 1..Len(data[e]) : NormalizeTs(data[e][i].timestamp) = t}

\* all_timestamps
AllTimestamps(data) ==
    UNION {{NormalizeTs(data[e][i].timestamp) : i \in 1..Len(data[e])} : e \in DOMAIN data}

\* The venues of the input in the order the dict yields them.
RECURSIVE DataOrderFrom(_, _)
DataOrderFrom(data, k) ==
    IF k > Len(ExchangeOrder) THEN <<>>
    ELSE (IF ExchangeOrder[k] \in DOMAIN data THEN <<ExchangeOrder[k]>> ELSE <<>>)
         \o DataOrderFrom(data, k + 1)

DataOrder(data) == DataOrderFrom(data, 1)

\* Variant: the last candle with the timestamp is taken.
MatchingCandle_Last(candles, timestamp) ==
    LET hits == {i \in 1..Len(candles) : NormalizeTs(candles[i].timestamp) = timestamp}
    IN  IF hits = {} THEN 0 ELSE CHOOSE i \in hits : \A j \in hits : i >= j

\* The inner loop "for candle in candles: ... if candle_ts == timestamp: ...
\* break": the index of the candle that is counted, 0 when there is none.
MatchingCandle(candles, timestamp) ==
    LET hits == {i \in 1..Len(candles) : NormalizeTs(candles[i].timestamp) = timestamp}
    IN  IF hits = {} THEN 0 ELSE CHOOSE i \in hits : \A j \in hits : i <= j

\* Variant: the inner loop without its break, so that every candle with the
\* timestamp is counted.
RECURSIVE ParticipationFrom_NoBreak(_, _, _)
ParticipationFrom_NoBreak(data, order, timestamp) ==
    IF order = <<>> THEN <<>>
    ELSE LET e    == Head(order)
             hits == SelectSeq(data[e], LAMBDA c : NormalizeTs(c.timestamp) = timestamp)
         IN  [i \in 1..Len(hits) |->
                 [exchange    |-> EXCHANGES[e].name,
                  exchange_id |-> e,
                  delta       |-> hits[i].delta,
                  volume      |-> hits[i].volume,
                  buy_volume  |-> hits[i].buy_volume,
                  sell_volume |-> hits[i].sell_volume]]
             \o ParticipationFrom_NoBreak(data, Tail(order), timestamp)

\* exchange_participation, with the fields the totals are summed from.
RECURSIVE ParticipationFrom(_, _, _)
ParticipationFrom(data, order, timestamp) ==
    IF order = <<>> THEN <<>>
    ELSE LET e == Head(order)
             k == MatchingCandle(data[e], timestamp)
         IN  (IF k = 0 THEN <<>>
              ELSE <<[exchange    |-> EXCHANGES[e].name,
                      exchange_id |-> e,
                      delta       |-> data[e][k].delta,
                      volume      |-> data[e][k].volume,
                      buy_volume  |-> data[e][k].buy_volume,
                      sell_volume |-> data[e][k].sell_volume]>>)
             \o ParticipationFrom(data, Tail(order), timestamp)

\* ep['exchange'].lower().replace(' ', '').replace('.', ''): the key of the
\* venue whose display name is given.
KeyOfName(name) == CHOOSE e \in ExchangeIds : EXCHANGES[e].name = name

\* total_weight: the priorities of the participating venues, summed.
TotalWeight(participation) ==
    SumSeq([i \in 1..Len(participation) |->
               EXCHANGES[KeyOfName(participation[i].exchange)].priority])

\* total_delta: sum of delta * priority (priority in hundredths).
TotalDelta(participation) ==
    SumSeq([i \in 1..Len(participation) |->
               participation[i].delta * EXCHANGES[participation[i].exchange_id].priority])

\* 'delta': total_delta / len(exchange_participation), in 1/DeltaScale units.
\* total_weight is computed by the program and not used in the division.
ConsensusDelta(total_delta, total_weight, count) ==
    (total_delta * (DeltaScale \div 100)) \div count

\* 'confidence': len(exchange_participation) / len(EXCHANGES), as a fraction.
Confidence(count) == [num |-> count, den |-> NumExchanges]

\* The square of statistics.stdev(deltas) / abs(statistics.mean(deltas)) as
\* a fraction, for len(deltas) = n >= 2 and a non-zero mean:
\*   stdev^2 = (n*sum(d^2) - sum(d)^2) / (n*(n-1)),  mean^2 = sum(d)^2 / n^2.
CoefficientSq(deltas) ==
    LET n  == Len(deltas)
        s  == SumSeq(deltas)
        s2 == SumSeq([i \in 1..n |-> deltas[i] * deltas[i]])
    IN  [num |-> n * (n * s2 - s * s), den |-> (n - 1) * s * s]

\* Variant: the threshold taken as inclusive (>=).
ExceedsThreshold_Inclusive(cv_sq) ==
    ((100 * 100) \div (DIVERGENCE_THRESHOLD * DIVERGENCE_THRESHOLD)) * cv_sq.num >= cv_sq.den

\* variance > DIVERGENCE_THRESHOLD, decided on the squares (both sides are
\* non-negative): 100^2 * num > DIVERGENCE_THRESHOLD^2 * den.
ExceedsThreshold(cv_sq) ==
    ((100 * 100) \div (DIVERGENCE_THRESHOLD * DIVERGENCE_THRESHOLD)) * cv_sq.num > cv_sq.den

\* "Calculate divergence": has_divergence and variance (kept squared).
Divergence(deltas) ==
    LET mean_is_zero == SumSeq(deltas) = 0
    IN  IF Len(deltas) >= 2 /\ ~mean_is_zero
        THEN [has_divergence |-> ExceedsThreshold(CoefficientSq(deltas)),
              variance_sq    |-> CoefficientSq(deltas)]
        ELSE [has_divergence |-> FALSE,
              variance_sq    |-> [num |-> 0, den |-> 1]]

\* The row built for one timestamp (exchange_participation is not empty).
AggregatedRow(participation) ==
    LET n      == Len(participation)
        deltas == [i \in 1..n |-> participation[i].delta]
        div    == Divergence(deltas)
    IN  [delta          |-> ConsensusDelta(TotalDelta(participation),
                                           TotalWeight(participation), n),
         volume         |-> SumSeq([i \in 1..n |-> participation[i].volume]),
         buy_volume     |-> SumSeq([i \in 1..n |-> participation[i].buy_volume]),
         sell_volume    |-> SumSeq([i \in 1..n |-> participation[i].sell_volume]),
         exchange_count |-> n,
         exchanges      |-> [i \in 1..n |-> [exchange |-> participation[i].exchange,
                                             delta    |-> participation[i].delta,
                                             volume   |-> participation[i].volume]],
         confidence     |-> Confidence(n),
         divergence     |-> [has_divergence |-> div.has_divergence,
                             variance_sq    |-> div.variance_sq,
                             deltas         |-> [nm \in {participation[i].exchange : i \in 1..n} |->
                                                    participation[
                                                        CHOOSE i \in 1..n :
                                                            /\ participation[i].exchange = nm
                                                            /\ \A j \in 1..n :
                                                                  participation[j].exchange = nm => j <= i
                                                    ].delta]]]

\* The returned dict: timestamp (seconds) -> row, for the timestamps at
\* which at least one venue has a candle.
aggregate_multi_exchange_data(data) ==
    LET order  == DataOrder(data)
        part   == [t \in AllTimestamps(data) |-> ParticipationFrom(data, order, t)]
        kept   == {t \in DOMAIN part : part[t] # <<>>}
    IN  [t \in kept |-> AggregatedRow(part[t])]

(***************************************************************************)
(* analyze_multi_exchange_orderflow, after the fetches: the quorum check,  *)
(* the aggregation, the CVD loop and the result.                           *)
(***************************************************************************)
\* Variant: the comparison taken as <=.
QuorumFailed_OffByOne(data) == Cardinality(DOMAIN data) <= MIN_EXCHANGES_REQUIRED

\* "if len(all_exchange_data) < MIN_EXCHANGES_REQUIRED: return error"
QuorumFailed(data) == Cardinality(DOMAIN data) < MIN_EXCHANGES_REQUIRED

\* Variant: the comparison taken as >=.
CvdRising_Inclusive(cumulative_delta, prev_cvd) == cumulative_delta >= prev_cvd

\* cvd_rising / is_increasing: cumulative_delta > prev_cvd
CvdRising(cumulative_delta, prev_cvd) == cumulative_delta > prev_cvd

\* cvd_dropping: cumulative_delta < prev_cvd
CvdDropping(cumulative_delta, prev_cvd) == cumulative_delta < prev_cvd

\* "volume_multiple >= 1.5" with volume_multiple = volume / avg_volume when
\* avg_volume > 0 and 0 otherwise; avg_volume = vol_sum / vol_count.
VolumeIsHigh(volume, vol_sum, vol_count) ==
    vol_sum > 0 /\ 2 * volume * vol_count >= 3 * vol_sum

\* Variant: the accumulator outlives the call; a later execution in the
\* same process starts from the last CVD value of the one before it.
LoopStart_Carried ==
    LET last  == IF call_ret = <<>> THEN [kind |-> "none"] ELSE call_ret[Len(call_ret)]
        start == IF last.kind = "result" /\ last.cvd # <<>>
                 THEN last.cvd[Len(last.cvd)].value ELSE 0
    IN  [cumulative_delta  |-> start,
         prev_cvd          |-> start,
         footprint         |-> <<>>,
         cvd_data          |-> <<>>,
         orderflow_table   |-> <<>>,
         divergence_alerts |-> <<>>]

\* The state of the loop "for timestamp in sorted(aggregated_data.keys())"
\* before its first iteration.
LoopStart ==
    [cumulative_delta  |-> 0,
     prev_cvd          |-> 0,
     footprint         |-> <<>>,
     cvd_data          |-> <<>>,
     orderflow_table   |-> <<>>,
     divergence_alerts |-> <<>>]

\* cumulative_delta += delta
Accumulate(cumulative_delta, delta) == cumulative_delta + delta

\* Variant: prev_cvd is never updated.
NextPrevCvd_Stale(prev_cvd, cumulative_delta) == prev_cvd

\* "prev_cvd = cumulative_delta" at the end of an iteration
NextPrevCvd(prev_cvd, cumulative_delta) == cumulative_delta

\* Variant: CVD and delta moving the same way are flagged.
HasDivergence_SameSign(cvd_rising, cvd_dropping, delta_positive, delta_negative) ==
    (cvd_rising /\ delta_positive) \/ (cvd_dropping /\ delta_negative)

\* has_divergence = (cvd_rising and delta_negative) or
\*                  (cvd_dropping and delta_positive)
HasDivergence(cvd_rising, cvd_dropping, delta_positive, delta_negative) ==
    (cvd_rising /\ delta_negative) \/ (cvd_dropping /\ delta_positive)

\* One iteration of the loop.
LoopBody(st, timestamp, data, vol_sum, vol_count) ==
    LET delta            == data.delta
        cumulative_delta == Accumulate(st.cumulative_delta, delta)
        cvd_rising       == CvdRising(cumulative_delta, st.prev_cvd)
        cvd_dropping     == CvdDropping(cumulative_delta, st.prev_cvd)
        delta_positive   == delta > 0
        delta_negative   == delta < 0
        has_divergence   == HasDivergence(cvd_rising, cvd_dropping, delta_positive, delta_negative)
        is_high_value    == has_divergence /\ VolumeIsHigh(data.volume, vol_sum, vol_count)
        is_increasing    == CvdRising(cumulative_delta, st.prev_cvd)
    IN  [cumulative_delta  |-> cumulative_delta,
         prev_cvd          |-> NextPrevCvd(st.prev_cvd, cumulative_delta),
         footprint         |-> Append(st.footprint,
                                 [time                |-> timestamp,
                                  delta               |-> delta,
                                  volume              |-> data.volume,
                                  exchanges           |-> data.exchange_count,
                                  confidence          |-> data.confidence,
                                  divergence          |-> has_divergence,
                                  highValueDivergence |-> is_high_value]),
         cvd_data          |-> Append(st.cvd_data,
                                 [time       |-> timestamp,
                                  value      |-> cumulative_delta,
                                  delta      |-> delta,
                                  color      |-> IF is_increasing THEN "green" ELSE "red",
                                  confidence |-> data.confidence]),
         orderflow_table   |-> Append(st.orderflow_table,
                                 [time                |-> timestamp,
                                  buyVol              |-> data.buy_volume,
                                  sellVol             |-> data.sell_volume,
                                  delta               |-> delta,
                                  volume              |-> data.volume,
                                  exchanges           |-> data.exchange_count,
                                  confidence          |-> data.confidence,
                                  divergence          |-> has_divergence,
                                  highValueDivergence |-> is_high_value]),
         divergence_alerts |-> IF has_divergence
                               THEN Append(st.divergence_alerts,
                                      [time         |-> timestamp,
                                       type         |-> IF is_high_value THEN "high_value" ELSE "normal",
                                       cvdDirection |-> IF cvd_rising THEN "rising" ELSE "dropping",
                                       deltaSign    |-> IF delta_positive THEN "positive" ELSE "negative"])
                               ELSE st.divergence_alerts]

\* The loop over keys[i..], from loop state st.
RECURSIVE RunLoop(_, _, _, _, _, _)
RunLoop(st, keys, i, agg, vol_sum, vol_count) ==
    IF i > Len(keys) THEN st
    ELSE RunLoop(LoopBody(st, keys[i], agg[keys[i]], vol_sum, vol_count),
                 keys, i + 1, agg, vol_sum, vol_count)

\* A candle field the venue left out: Python's None.
NoneTimestamp == -1

\* "if ts > 10000000000" raises TypeError when ts is None; nothing between
\* the fetchers and the aggregator replaces a missing timestamp.
AggregationRaises(data) ==
    \E e \in DOMAIN data : \E i \in 1..Len(data[e]) : data[e][i].timestamp = NoneTimestamp

\* The outer "except Exception" of analyze_multi_exchange_orderflow.
AnalysisFailed ==
    [kind      |-> "error",
     error     |-> "Analysis failed",
     traceback |-> "traceback"]

\* The quorum error object.
QuorumError(data, metadata) ==
    [kind     |-> "error",
     error    |-> "Insufficient exchanges responding",
     got      |-> Cardinality(DOMAIN data),
     need     |-> MIN_EXCHANGES_REQUIRED,
     metadata |-> [exchanges |-> metadata]]

\* Variant: the candles the venues returned are counted.
TotalCandles_Fetched(footprint, metadata) ==
    SumSeq([i \in 1..Len(metadata) |-> metadata[i].candles_count])

\* 'total_candles': len(footprint)
TotalCandles(footprint, metadata) == Len(footprint)

\* Variant: the mean is taken over the venues that succeeded.
AvgResponseTime_SucceededOnly(metadata) ==
    [num |-> SumSeq([i \in 1..Len(metadata) |->
                IF metadata[i].success THEN metadata[i].response_time_ms ELSE 0]),
     den |-> Cardinality({i \in 1..Len(metadata) : metadata[i].success})]

\* statistics.mean([m['response_time_ms'] for m in all_metadata]), as the
\* fraction num / den
AvgResponseTime(metadata) ==
    [num |-> SumSeq([i \in 1..Len(metadata) |-> metadata[i].response_time_ms]),
     den |-> Len(metadata)]

\* The result object built from the aggregated rows.
AnalysisResult(agg, metadata) ==
    LET keys      == SortedSeq(DOMAIN agg)
        vol_sum   == SumSeq([i \in 1..Len(keys) |-> agg[keys[i]].volume])
        st        == RunLoop(LoopStart, keys, 1, agg, vol_sum, Len(keys))
        succeeded == {i \in 1..Len(metadata) : metadata[i].success}
    IN  [kind           |-> "result",
         footprint      |-> st.footprint,
         cvd            |-> st.cvd_data,
         orderflowTable |-> st.orderflow_table,
         divergences    |-> st.divergence_alerts,
         metadata       |-> [exchanges            |-> metadata,
                             success_rate         |-> [num |-> Cardinality(succeeded),
                                                       den |-> Len(metadata)],
                             avg_response_time_ms |-> AvgResponseTime(metadata),
                             total_candles        |-> TotalCandles(st.footprint, metadata)]]

(***************************************************************************)
(* Inputs: what the venues may answer in a run.                            *)
(***************************************************************************)
\* Longest answer of a venue (the program asks for limit = 50 candles).
MaxCandles == 10

\* Epoch second of the first candle of an answer (shortened epoch).
FirstBarSeconds == 1700

\* Measured response time of a history call, in ms.
ResponseTimes == {25}

SeriesLens == {MaxCandles - 1, MaxCandles}

\* The three kinds of raw candle the venues answer with.
RawCandle(i, shape) ==
    [ts        |-> (FirstBarSeconds + i) * MS_PER_SECOND,
     open      |-> IF shape = "down" THEN 2 ELSE 1,
     close     |-> IF shape = "up" THEN 2 ELSE 1,
     volume    |-> 2,
     taker_buy |-> CASE shape = "up" -> 2 [] shape = "down" -> 0 [] OTHER -> 1]

Patterns ==
    [wave  |-> <<"up", "down", "flat">>,
     slide |-> <<"down", "down", "up">>]

\* n candles, time-ascending, whose kinds repeat the pattern.
RawSeries(n, pat) ==
    [i \in 1..n |-> RawCandle(i, Patterns[pat][((i - 1) % Len(Patterns[pat])) + 1])]

PatternsOf(exchange_id) ==
    IF EXCHANGES[exchange_id].has_taker_volume THEN {"wave", "slide"} ELSE {"wave"}

\* The answers venue exchange_id may give to one history call.
Responses(exchange_id) ==
    {[kind |-> "raise"], [kind |-> "data", rows |-> <<>>]} \cup
    {[kind |-> "data",
      rows |-> IF exchange_id = "okx" THEN Reverse(RawSeries(n, pat)) ELSE RawSeries(n, pat)] :
        n \in SeriesLens, pat \in PatternsOf(exchange_id)}

(***************************************************************************)
(* A run of analyze_multi_exchange_orderflow.  The venues are fetched one  *)
(* after the other, in FetchOrder; each fetch is a blocking call: the      *)
(* history call is issued (CallVenue) and the run waits until the venue    *)
(* has answered or the call has raised (VenueReturns).                     *)
(***************************************************************************)
FetchOrder == <<"binanceus", "okx", "gateio", "kraken", "kucoin", "coinbase">>

NoOutput == [kind |-> "none"]

InitRun ==
    /\ mode = "run"
    /\ next_venue = 1
    /\ pending = "none"
    /\ attempts = [e \in ExchangeIds |-> 0]
    /\ all_metadata = <<>>
    /\ all_exchange_data = <<>>
    /\ aggregated = <<>>
    /\ output = NoOutput
    /\ call_args = <<>>
    /\ call_ret = <<>>
    /\ call_locals = <<>>

\* Variant: no further venue is fetched once a fetch has failed.
NextToFetch_StopsOnFailure ==
    IF /\ pending = "none"
       /\ next_venue <= Len(FetchOrder)
       /\ \A i \in 1..Len(all_metadata) : all_metadata[i].success
    THEN FetchOrder[next_venue] ELSE "none"

\* Variant: a venue that answered with an empty list is fetched once more.
NextToFetch_RefetchesEmpty ==
    IF /\ pending = "none"
       /\ all_metadata # <<>>
       /\ all_metadata[Len(all_metadata)].error = "No candles returned"
       /\ attempts[all_metadata[Len(all_metadata)].exchange_id] < 2
    THEN all_metadata[Len(all_metadata)].exchange_id
    ELSE IF pending = "none" /\ next_venue <= Len(FetchOrder)
    THEN FetchOrder[next_venue] ELSE "none"

\* The venue whose fetch the run may start now, or "none".
NextToFetch ==
    IF pending = "none" /\ next_venue <= Len(FetchOrder)
    THEN FetchOrder[next_venue] ELSE "none"

\* The fetcher of venue e issues its history call.
CallVenue(e) ==
    /\ mode = "run"
    /\ output = NoOutput
    /\ NextToFetch = e
    /\ pending' = e
    /\ attempts' = [attempts EXCEPT ![e] = @ + 1]
    /\ UNCHANGED <<mode, next_venue, all_metadata, all_exchange_data, aggregated, output, call_args, call_ret, call_locals>>

\* Variant: the metadata of a failed fetch is not appended.
Record_DropsFailures(data, metadata, e, fetched) ==
    [metadata |-> IF fetched.metadata.success
                  THEN Append(metadata, fetched.metadata) ELSE metadata,
     data     |-> IF fetched.metadata.success
                  THEN [x \in DOMAIN data \cup {e} |->
                           IF x = e THEN fetched.candles ELSE data[x]]
                  ELSE data]

\* "all_metadata.append(meta); if meta['success']: all_exchange_data[e] = candles"
Record(data, metadata, e, fetched) ==
    [metadata |-> Append(metadata, fetched.metadata),
     data     |-> IF fetched.metadata.success
                  THEN [x \in DOMAIN data \cup {e} |->
                           IF x = e THEN fetched.candles ELSE data[x]]
                  ELSE data]

\* The history call of venue e returns or raises; the fetcher returns
\* (candles, metadata) and the run records them.
VenueReturns(e) ==
    /\ mode = "run"
    /\ pending = e
    /\ \E resp \in Responses(e), rt \in ResponseTimes :
          LET rec == Record(all_exchange_data, all_metadata, e, FetchVenue(e, resp, rt))
          IN  /\ all_metadata' = rec.metadata
              /\ all_exchange_data' = rec.data
    /\ pending' = "none"
    /\ next_venue' = next_venue + 1
    /\ UNCHANGED <<mode, attempts, aggregated, output, call_args, call_ret, call_locals>>

\* After the last fetch: quorum check, aggregation, CVD loop, result.
Analyze ==
    /\ mode = "run"
    /\ output = NoOutput
    /\ pending = "none"
    /\ next_venue > Len(FetchOrder)
    /\ IF QuorumFailed(all_exchange_data)
       THEN /\ output' = QuorumError(all_exchange_data, all_metadata)
            /\ UNCHANGED aggregated
       ELSE IF AggregationRaises(all_exchange_data)
       THEN /\ output' = AnalysisFailed
            /\ UNCHANGED aggregated
       ELSE /\ aggregated' = aggregate_multi_exchange_data(all_exchange_data)
            /\ output' = AnalysisResult(aggregated', all_metadata)
    /\ UNCHANGED <<mode, next_venue, pending, attempts, all_metadata, all_exchange_data, call_args, call_ret, call_locals>>

Next ==
    \/ \E e \in ExchangeIds : CallVenue(e)
    \/ \E e \in ExchangeIds : VenueReturns(e)
    \/ Analyze

Spec == InitRun /\ [][Next]_vars

(***************************************************************************)
(* aggregate_multi_exchange_data called on its own, on candle lists whose  *)
(* deltas are not tied to a fetcher: per venue and bar, no candle or one   *)
(* candle with one of the venue's two deltas; with dup, every list also    *)
(* holds a second candle with the timestamp of its first one.              *)
(***************************************************************************)
\* Number of bars the input candles are spread over.
NumAggTimes == 2

AggVenues == {"binanceus", "okx", "kraken"}

AggDeltas ==
    [binanceus |-> <<5, 4>>,
     okx       |-> <<5, -5>>,
     kraken    |-> <<-40, 6>>]

\* The venues stamp the same bar differently: milliseconds on the second,
\* milliseconds inside the second, and seconds.
AggTimestamp(e, t) ==
    CASE e = "binanceus" -> (FirstBarSeconds + t) * MS_PER_SECOND
      [] e = "okx"       -> (FirstBarSeconds + t) * MS_PER_SECOND + 250
      [] OTHER           -> FirstBarSeconds + t

AggCandle(e, t, delta) ==
    LET buy_volume  == 10 + (IF delta > 0 THEN delta ELSE 0)
        sell_volume == 10 + (IF delta < 0 THEN -delta ELSE 0)
    IN  [timestamp   |-> AggTimestamp(e, t),
         open        |-> 1,
         close       |-> 1,
         volume      |-> buy_volume + sell_volume,
         buy_volume  |-> buy_volume,
         sell_volume |-> sell_volume,
         delta       |-> buy_volume - sell_volume]

\* pick[t] = 0: no candle for bar t; pick[t] = k: a candle with the venue's
\* k-th delta.  The candles are listed in bar order.
RECURSIVE AggSeriesFrom(_, _, _)
AggSeriesFrom(e, pick, t) ==
    IF t > NumAggTimes THEN <<>>
    ELSE (IF pick[t] = 0 THEN <<>> ELSE <<AggCandle(e, t, AggDeltas[e][pick[t]])>>)
         \o AggSeriesFrom(e, pick, t + 1)

\* The other delta of the venue, stamped like the first candle of series.
Duplicate(e, series) ==
    LET first == series[1]
        other == IF first.delta = AggDeltas[e][1] THEN AggDeltas[e][2] ELSE AggDeltas[e][1]
    IN  [AggCandle(e, 0, other) EXCEPT !.timestamp = first.timestamp]

AggSeries(e, pick, dup) ==
    LET series == AggSeriesFrom(e, pick, 1)
    IN  IF dup /\ series # <<>> THEN Append(series, Duplicate(e, series)) ELSE series

AggInput(picks, dup) ==
    LET present == {e \in AggVenues : AggSeries(e, picks[e], dup) # <<>>}
    IN  [e \in present |-> AggSeries(e, picks[e], dup)]

AggInputs ==
    {AggInput(picks, dup) :
        picks \in [AggVenues -> [1..NumAggTimes -> 0..2]],
        dup \in BOOLEAN}

InitAgg ==
    /\ mode = "aggregate"
    /\ next_venue = 1
    /\ pending = "none"
    /\ attempts = [e \in ExchangeIds |-> 0]
    /\ all_metadata = <<>>
    /\ all_exchange_data \in AggInputs
    /\ aggregated = <<>>
    /\ output = NoOutput
    /\ call_args = <<>>
    /\ call_ret = <<>>
    /\ call_locals = <<>>

\* The call aggregate_multi_exchange_data(all_exchange_data).
Aggregate ==
    /\ mode = "aggregate"
    /\ output = NoOutput
    /\ aggregated' = aggregate_multi_exchange_data(all_exchange_data)
    /\ output' = [kind |-> "aggregated"]
    /\ UNCHANGED <<mode, next_venue, pending, attempts, all_metadata, all_exchange_data, call_args, call_ret, call_locals>>

NextAgg == Aggregate

SpecAgg == InitAgg /\ [][NextAgg]_vars

(***************************************************************************)
(* normalize_symbol(symbol, exchange_id), called on its own.  A string is  *)
(* a sequence of one-character strings.                                    *)
(***************************************************************************)
\* str.upper() on one character
UpperCase ==
    [a |-> "A", b |-> "B", c |-> "C", d |-> "D", e |-> "E", f |-> "F", g |-> "G",
     h |-> "H", i |-> "I", j |-> "J", k |-> "K", l |-> "L", m |-> "M", n |-> "N",
     o |-> "O", p |-> "P", q |-> "Q", r |-> "R", s |-> "S", t |-> "T", u |-> "U",
     v |-> "V", w |-> "W", x |-> "X", y |-> "Y", z |-> "Z"]

\* Variant: the case of the symbol is kept.
upper_KeepsCase(s) == s

\* symbol.upper()
upper(s) == [i \in 1..Len(s) |-> IF s[i] \in DOMAIN UpperCase THEN UpperCase[s[i]] ELSE s[i]]

IsNotDash(c) == c # "-"

\* Variant: the separator is kept.
replace_dash_Keeps(s) == s

\* symbol.replace('-', '')
replace_dash(s) == SelectSeq(s, IsNotDash)

\* str.endswith
endswith(s, suffix) ==
    /\ Len(s) >= Len(suffix)
    /\ SubSeq(s, Len(s) - Len(suffix) + 1, Len(s)) = suffix

USDT == <<"U", "S", "D", "T">>

USD == <<"U", "S", "D">>

\* The "Exchange-specific formatting" chain of if/elif, with its final
\* "return f'{base}{quote}'" for an exchange_id it does not list.
ExchangeFormat(exchange_id, base, quote) ==
    CASE exchange_id = "binanceus" -> base \o USDT
      [] exchange_id = "okx"       -> base \o <<"/">> \o USDT
      [] exchange_id = "gateio"    -> base \o <<"/">> \o USDT
      [] exchange_id = "kraken"    -> base \o <<"/">> \o USD
      [] exchange_id = "kucoin"    -> base \o <<"-">> \o USDT
      [] exchange_id = "coinbase"  -> base \o <<"-">> \o USD
      [] OTHER                     -> base \o quote

normalize_symbol(symbol_in, exchange_id) ==
    LET symbol == replace_dash(upper(symbol_in))
    IN  IF endswith(symbol, USDT)
        THEN ExchangeFormat(exchange_id, SubSeq(symbol, 1, Len(symbol) - 4), USDT)
        ELSE IF endswith(symbol, USD)
        THEN ExchangeFormat(exchange_id, SubSeq(symbol, 1, Len(symbol) - 3), USD)
        ELSE symbol

\* Longest base of an input symbol.
MaxBaseLen == 2

BaseChars == {"B", "b", "U", "-"}

\* All strings over BaseChars of length n.
RECURSIVE StringsOfLen(_)
StringsOfLen(n) ==
    IF n = 0 THEN {<<>>}
    ELSE {Append(s, c) : s \in StringsOfLen(n - 1), c \in BaseChars}

SymbolBases == UNION {StringsOfLen(n) : n \in 0..MaxBaseLen}

SymbolSeparators == {<<>>, <<"-">>}

SymbolQuotes == {USDT, USD, <<"u", "s", "d", "t">>, <<"E", "U", "R">>, <<>>}

\* The exchange ids a caller may pass: the configured ones and one that
\* normalize_symbol does not list.
CallerExchangeIds == ExchangeIds \cup {"bybit"}

InitSym ==
    /\ mode = "normalize_symbol"
    /\ next_venue = 1
    /\ pending = "none"
    /\ attempts = [e \in ExchangeIds |-> 0]
    /\ all_metadata = <<>>
    /\ all_exchange_data = <<>>
    /\ aggregated = <<>>
    /\ output = NoOutput
    /\ \E base \in SymbolBases, separator \in SymbolSeparators, quote \in SymbolQuotes,
          exchange_id \in CallerExchangeIds :
          call_args = [symbol      |-> base \o separator \o quote,
                       exchange_id |-> exchange_id,
                       parts       |-> [base |-> base, separator |-> separator, quote |-> quote]]
    /\ call_ret = <<>>
    /\ call_locals = <<>>

\* The call normalize_symbol(symbol, exchange_id).
NormalizeSymbol ==
    /\ mode = "normalize_symbol"
    /\ call_ret = <<>>
    /\ call_ret' = <<normalize_symbol(call_args.symbol, call_args.exchange_id)>>
    /\ UNCHANGED <<mode, call_args, call_locals, run_vars>>

NextSym == NormalizeSymbol

SpecSym == InitSym /\ [][NextSym]_vars

(***************************************************************************)
(* The part of analyze_multi_exchange_orderflow after the fetches (quorum  *)
(* check, aggregation, CVD loop), executed more than once in one process   *)
(* on the same fetched candles.  The fetched state is computed by the      *)
(* fetchers from short answers whose candles differ in volume.             *)
(***************************************************************************)
\* Candles per answer.
RepeatBars == 2

\* Executions of the analysis in one process.
NumRuns == 2

\* A kline with a volume ten times the usual one, sold into.
SurgeCandle(i) ==
    [ts        |-> (FirstBarSeconds + i) * MS_PER_SECOND,
     open      |-> 2,
     close     |-> 1,
     volume    |-> 20,
     taker_buy |-> 4]

RepeatCandle(i, shape) == IF shape = "surge" THEN SurgeCandle(i) ELSE RawCandle(i, shape)

RepeatShapes(exchange_id) ==
    CASE exchange_id = "binanceus" -> {"up", "down", "surge"}
      [] exchange_id = "okx"       -> {"up", "down"}
      [] OTHER                     -> {"flat"}

\* The answers venue exchange_id may have given.
RepeatResponses(exchange_id) ==
    {[kind |-> "raise"]} \cup
    (IF exchange_id = "coinbase"
     THEN {[kind |-> "data",
            rows |-> [i \in 1..RepeatBars |->
                        IF i = 1 THEN [RawCandle(i, "flat") EXCEPT !.ts = NoneTimestamp]
                        ELSE RawCandle(i, "flat")]]}
     ELSE {}) \cup
    {[kind |-> "data",
      rows |-> LET series == [i \in 1..RepeatBars |-> RepeatCandle(i, shapes[i])]
               IN  IF exchange_id = "okx" THEN Reverse(series) ELSE series] :
        shapes \in [1..RepeatBars -> RepeatShapes(exchange_id)]}

\* The time measured around the call: a call that raises (a timeout, a
\* refused connection) takes longer than one that is answered.
RepeatResponseTime(resp) ==
    IF resp.kind = "raise" THEN 40 ELSE CHOOSE rt \in ResponseTimes : TRUE

\* all_exchange_data and all_metadata after the venues FetchOrder[1..k]
\* have answered resp[e].
RECURSIVE Fetched(_, _)
Fetched(resp, k) ==
    IF k = 0 THEN [data |-> <<>>, metadata |-> <<>>]
    ELSE LET before == Fetched(resp, k - 1)
             e      == FetchOrder[k]
         IN  Record(before.data, before.metadata, e,
                    FetchVenue(e, resp[e], RepeatResponseTime(resp[e])))

InitRepeat ==
    /\ mode = "repeat"
    /\ next_venue = Len(FetchOrder) + 1
    /\ pending = "none"
    /\ attempts = [e \in ExchangeIds |-> 1]
    /\ \E r1 \in RepeatResponses("binanceus"), r2 \in RepeatResponses("okx"),
          r3 \in RepeatResponses("gateio"), r4 \in RepeatResponses("kraken"),
          r5 \in RepeatResponses("kucoin"), r6 \in RepeatResponses("coinbase") :
          LET resp == [binanceus |-> r1, okx |-> r2, gateio |-> r3,
                       kraken |-> r4, kucoin |-> r5, coinbase |-> r6]
          IN  /\ all_metadata = Fetched(resp, Len(FetchOrder)).metadata
              /\ all_exchange_data = Fetched(resp, Len(FetchOrder)).data
    /\ aggregated = <<>>
    /\ output = NoOutput
    /\ call_args = <<>>
    /\ call_ret = <<>>
    /\ call_locals = <<>>

\* One execution of the analysis on the fetched candles; call_ret collects
\* what the executions returned.
AnalyzeFetched ==
    /\ mode = "repeat"
    /\ Len(call_ret) < NumRuns
    /\ IF QuorumFailed(all_exchange_data)
       THEN /\ output' = QuorumError(all_exchange_data, all_metadata)
            /\ UNCHANGED aggregated
       ELSE IF AggregationRaises(all_exchange_data)
       THEN /\ output' = AnalysisFailed
            /\ UNCHANGED aggregated
       ELSE /\ aggregated' = aggregate_multi_exchange_data(all_exchange_data)
            /\ output' = AnalysisResult(aggregated', all_metadata)
    /\ call_ret' = Append(call_ret, output')
    /\ UNCHANGED <<mode, next_venue, pending, attempts, all_metadata, all_exchange_data, call_args, call_locals>>

NextRepeat == AnalyzeFetched

SpecRepeat == InitRepeat /\ [][NextRepeat]_vars

(***************************************************************************)
(* build_footprint_from_trades(trades, interval_ms)                        *)
(* (server/python/binance_orderflow.py), called on its own.  A trade is    *)
(* [T, p, q, m]: time in ms, price and quantity as float() parses them     *)
(* (whole numbers of the smallest price and quantity step), and the        *)
(* buyer-is-maker flag.                                                    *)
(***************************************************************************)
\* candle_start = (timestamp // interval_ms) * interval_ms
CandleStart(timestamp, interval_ms) == (timestamp \div interval_ms) * interval_ms

\* Variant: the flag read the other way round.
TakerSold_Inverted(trade) == ~trade.m

\* is_buyer_maker: the buyer was the maker, so the taker sold into the bid.
TakerSold(trade) == trade.m

\* price_levels[price]['bid'] and ['ask'] after the trades of one candle.
PriceLevel(candle_trades, price) ==
    [bid |-> SumSeq([i \in 1..Len(candle_trades) |->
                IF candle_trades[i].p = price /\ TakerSold(candle_trades[i])
                THEN candle_trades[i].q ELSE 0]),
     ask |-> SumSeq([i \in 1..Len(candle_trades) |->
                IF candle_trades[i].p = price /\ ~TakerSold(candle_trades[i])
                THEN candle_trades[i].q ELSE 0])]

\* The entry appended for the candle that starts at candle_start.
FootprintEntry(trades, interval_ms, candle_start) ==
    LET InCandle(trade) == CandleStart(trade.T, interval_ms) = candle_start
        candle_trades   == SelectSeq(trades, InCandle)
        prices          == SortedSeq({candle_trades[i].p : i \in 1..Len(candle_trades)})
        bid_vol         == [k \in 1..Len(prices) |-> PriceLevel(candle_trades, prices[k]).bid]
        ask_vol         == [k \in 1..Len(prices) |-> PriceLevel(candle_trades, prices[k]).ask]
        delta           == [k \in 1..Len(prices) |-> ask_vol[k] - bid_vol[k]]
    IN  [time   |-> candle_start \div MS_PER_SECOND,
         prices |-> prices,
         bidVol |-> bid_vol,
         askVol |-> ask_vol,
         delta  |-> SumSeq(delta)]

build_footprint_from_trades(trades, interval_ms) ==
    LET starts == SortedSeq({CandleStart(trades[i].T, interval_ms) : i \in 1..Len(trades)})
    IN  [k \in 1..Len(starts) |-> FootprintEntry(trades, interval_ms, starts[k])]

\* Longest list of trades.
MaxTrades == 2

\* interval_to_milliseconds('1m')
IntervalsMs == {60 * MS_PER_SECOND}

\* Trade times around the first candle boundaries of a one-minute interval.
TradeTimes == {60 * MS_PER_SECOND - 1, 60 * MS_PER_SECOND, 2 * 60 * MS_PER_SECOND - 1}

Trades == [T : TradeTimes, p : {100, 101}, q : {1, 2}, m : BOOLEAN]

TradeLists == UNION {[1..n -> Trades] : n \in 0..MaxTrades}

InitFootprint ==
    /\ mode = "build_footprint_from_trades"
    /\ next_venue = 1
    /\ pending = "none"
    /\ attempts = [e \in ExchangeIds |-> 0]
    /\ all_metadata = <<>>
    /\ all_exchange_data = <<>>
    /\ aggregated = <<>>
    /\ output = NoOutput
    /\ \E trades \in TradeLists, interval_ms \in IntervalsMs :
          call_args = [trades |-> trades, interval_ms |-> interval_ms]
    /\ call_ret = <<>>
    /\ call_locals = <<>>

\* The call build_footprint_from_trades(trades, interval_ms).
BuildFootprint ==
    /\ mode = "build_footprint_from_trades"
    /\ call_ret = <<>>
    /\ call_ret' = <<build_footprint_from_trades(call_args.trades, call_args.interval_ms)>>
    /\ UNCHANGED <<mode, call_args, call_locals, run_vars>>

NextFootprint == BuildFootprint

SpecFootprint == InitFootprint /\ [][NextFootprint]_vars

(***************************************************************************)
(* The symbol each fetcher puts into its history call, for the symbol      *)
(* analyze_multi_exchange_orderflow hands to it unchanged.                 *)
(***************************************************************************)
\* str.replace(old, ''): every occurrence of old, left to right, removed.
RECURSIVE replace_all(_, _)
replace_all(s, old) ==
    IF Len(s) < Len(old) THEN s
    ELSE IF SubSeq(s, 1, Len(old)) = old
    THEN replace_all(SubSeq(s, Len(old) + 1, Len(s)), old)
    ELSE <<Head(s)>> \o replace_all(Tail(s), old)

\* fetch_binance_ohlcv_with_taker_volume: "...klines?symbol={symbol}&..."
BinanceRequestSymbol(symbol) == symbol

\* fetch_okx_ohlcv_with_taker_volume: base = symbol.replace('USDT', '');
\* okx_symbol = f"{base}-USDT"
OkxRequestSymbol(symbol) == replace_all(symbol, USDT) \o <<"-">> \o USDT

\* fetch_ohlcv_from_exchange: exchange.fetch_ohlcv(normalized_symbol, ...)
GenericRequestSymbol(exchange_id, symbol) == normalize_symbol(symbol, exchange_id)

\* The symbol in the history call of venue exchange_id.
RequestSymbol(exchange_id, symbol) ==
    CASE exchange_id = "binanceus" -> BinanceRequestSymbol(symbol)
      [] exchange_id = "okx"       -> OkxRequestSymbol(symbol)
      [] OTHER                     -> GenericRequestSymbol(exchange_id, symbol)

InitRequest ==
    /\ mode = "request"
    /\ next_venue = 1
    /\ pending = "none"
    /\ attempts = [e \in ExchangeIds |-> 0]
    /\ all_metadata = <<>>
    /\ all_exchange_data = <<>>
    /\ aggregated = <<>>
    /\ output = NoOutput
    /\ \E base \in SymbolBases, separator \in SymbolSeparators, quote \in SymbolQuotes,
          exchange_id \in ExchangeIds :
          call_args = [symbol      |-> base \o separator \o quote,
                       exchange_id |-> exchange_id,
                       parts       |-> [base |-> base, separator |-> separator, quote |-> quote]]
    /\ call_ret = <<>>
    /\ call_locals = <<>>

\* The fetcher of venue exchange_id issues its history call for symbol.
IssueRequest ==
    /\ mode = "request"
    /\ call_ret = <<>>
    /\ call_ret' = <<RequestSymbol(call_args.exchange_id, call_args.symbol)>>
    /\ UNCHANGED <<mode, call_args, call_locals, run_vars>>

NextRequest == IssueRequest

SpecRequest == InitRequest /\ [][NextRequest]_vars

(***************************************************************************)
(* fetch_binance_trades(symbol, start_time, end_time)                      *)
(* (server/python/binance_orderflow.py): the pagination loop.  The venue   *)
(* holds its trades in time order; a request returns the first PageLimit   *)
(* of them with startTime <= T <= endTime.                                 *)
(***************************************************************************)
\* 'limit': 1000, scaled down
PageLimit == 2

\* Trades the venue holds at most.
MaxVenueTrades == 4

\* Latest time (ms) of a trade or of a window end.
MaxClock == 3

\* Variant: the next page starts at the time of the last trade.
NextStart_SameTime(trades) == trades[Len(trades)].T

\* current_start = trades[-1]['T'] + 1
NextStart(trades) == trades[Len(trades)].T + 1

\* The venue's answer to one request.
Page(venue_trades, startTime, endTime, limit) ==
    LET InWindow(trade) == startTime <= trade.T /\ trade.T <= endTime
        hits            == SelectSeq(venue_trades, InWindow)
    IN  IF Len(hits) <= limit THEN hits ELSE SubSeq(hits, 1, limit)

\* The trade lists a venue may hold: ids ascending, times not descending.
VenueTradeLists ==
    UNION {{[i \in 1..n |-> [a |-> i, T |-> times[i]]] :
               times \in {ts \in [1..n -> 0..MaxClock] :
                             \A i \in 1..n : \A j \in 1..n : i < j => ts[i] <= ts[j]}} :
           n \in 0..MaxVenueTrades}

InitTrades ==
    /\ mode = "fetch_binance_trades"
    /\ next_venue = 1
    /\ pending = "none"
    /\ attempts = [e \in ExchangeIds |-> 0]
    /\ all_metadata = <<>>
    /\ all_exchange_data = <<>>
    /\ aggregated = <<>>
    /\ output = NoOutput
    /\ \E venue_trades \in VenueTradeLists, start_time \in 0..MaxClock, end_time \in 0..MaxClock :
          /\ call_args = [venue_trades |-> venue_trades,
                          start_time   |-> start_time,
                          end_time     |-> end_time]
          /\ call_locals = [current_start |-> start_time,
                            all_trades    |-> <<>>,
                            requests      |-> 0,
                            failed        |-> FALSE]
    /\ call_ret = <<>>

\* One iteration whose request is answered.
RequestPage ==
    /\ mode = "fetch_binance_trades"
    /\ call_ret = <<>>
    /\ call_locals.current_start < call_args.end_time
    /\ LET trades == Page(call_args.venue_trades, call_locals.current_start,
                          call_args.end_time, PageLimit)
       IN  IF trades = <<>>
           THEN /\ call_locals' = [call_locals EXCEPT !.requests = @ + 1]
                /\ call_ret' = <<call_locals.all_trades>>
           ELSE /\ call_locals' = [call_locals EXCEPT
                                       !.requests = @ + 1,
                                       !.all_trades = @ \o trades,
                                       !.current_start = NextStart(trades)]
                /\ call_ret' = IF Len(trades) < PageLimit
                               THEN <<call_locals'.all_trades>> ELSE <<>>
    /\ UNCHANGED <<mode, call_args, run_vars>>

\* One iteration whose request raises: the except branch breaks the loop.
RequestFails ==
    /\ mode = "fetch_binance_trades"
    /\ call_ret = <<>>
    /\ call_locals.current_start < call_args.end_time
    /\ call_locals' = [call_locals EXCEPT !.requests = @ + 1, !.failed = TRUE]
    /\ call_ret' = <<call_locals.all_trades>>
    /\ UNCHANGED <<mode, call_args, run_vars>>

\* The while test fails: "return all_trades".
WindowDone ==
    /\ mode = "fetch_binance_trades"
    /\ call_ret = <<>>
    /\ ~(call_locals.current_start < call_args.end_time)
    /\ call_ret' = <<call_locals.all_trades>>
    /\ UNCHANGED <<mode, call_args, call_locals, run_vars>>

NextTrades == RequestPage \/ RequestFails \/ WindowDone

SpecTrades == InitTrades /\ [][NextTrades]_vars

\* Every request returns or raises (timeout=30), so the loop keeps going.
SpecTradesFair == SpecTrades /\ WF_vars(NextTrades)

(***************************************************************************)
(* Properties                                                              *)
(***************************************************************************)
\* Positions of all_metadata of the venues that returned success.
Succeeded == {i \in 1..Len(all_metadata) : all_metadata[i].success}

Failed == {i \in 1..Len(all_metadata) : ~all_metadata[i].success}

\* Priority (hundredths) of the venue with the given display name.
PriorityOfName(name) == EXCHANGES[CHOOSE e \in ExchangeIds : EXCHANGES[e].name = name].priority

\* Venues of the input with at least one candle stamped t (in seconds).
VenuesAt(t) ==
    {e \in DOMAIN all_exchange_data :
        \E i \in 1..Len(all_exchange_data[e]) :
            NormalizeTs(all_exchange_data[e][i].timestamp) = t}

\* Sum of the squared pairwise differences of a list of deltas.
PairwiseSq(ds) ==
    SumSeq([k \in 1..(Len(ds) * Len(ds)) |->
        LET i == ((k - 1) \div Len(ds)) + 1
            j == ((k - 1) % Len(ds)) + 1
        IN  IF i < j THEN (ds[i] - ds[j]) * (ds[i] - ds[j]) ELSE 0])

RowDeltas(row) == [i \in 1..Len(row.exchanges) |-> row.exchanges[i].delta]

C3_PriorityWeightedMean ==
    \A t \in DOMAIN aggregated :
        LET row == aggregated[t]
            ex  == row.exchanges
            num == SumSeq([i \in 1..Len(ex) |-> ex[i].delta * PriorityOfName(ex[i].exchange)])
            den == SumSeq([i \in 1..Len(ex) |-> PriorityOfName(ex[i].exchange)])
        IN  row.delta * den = DeltaScale * num

\* C4: a row's cross-venue divergence flag is true exactly when at least two
\* venues participate, the mean of their deltas is not zero, and
\* stdev / |mean| > 0.20, that is (squared, with n * sum(d^2) - sum(d)^2 the
\* sum of the squared pairwise differences Q):  25 * n * Q > (n - 1) * sum(d)^2.
C4_DivergenceFlag ==
    \A t \in DOMAIN aggregated :
        LET ds == RowDeltas(aggregated[t])
            n  == Len(ds)
            s  == SumSeq(ds)
        IN  aggregated[t].divergence.has_divergence <=>
                (n >= 2 /\ s # 0 /\ 25 * n * PairwiseSq(ds) > (n - 1) * s * s)

\* A row of three venues whose coefficient of variation is exactly 0.20
\* (deltas 4, 5, 6), flagged false.
C4_Witness ==
    \E t \in DOMAIN aggregated :
        LET ds == RowDeltas(aggregated[t])
            s  == SumSeq(ds)
        IN  /\ Len(ds) = 3
            /\ s # 0
            /\ 25 * 3 * PairwiseSq(ds) = 2 * s * s
            /\ ~aggregated[t].divergence.has_divergence

\* C5: a row's confidence is the number of venues that have a candle for the
\* row's timestamp divided by the 6 configured venues, and lies in [0, 1],
\* also when a venue has several candles with that timestamp.
C5_Confidence ==
    \A t \in DOMAIN aggregated :
        LET c == aggregated[t].confidence
        IN  /\ c.num = Cardinality(VenuesAt(t))
            /\ c.den = 6
            /\ 0 <= c.num /\ c.num <= c.den

\* A row for which a venue holds two candles with the row's timestamp.
C5_Witness ==
    \E t \in DOMAIN aggregated : \E e \in DOMAIN all_exchange_data :
        Cardinality({i \in 1..Len(all_exchange_data[e]) :
                        NormalizeTs(all_exchange_data[e][i].timestamp) = t}) >= 2

\* C6: the CVD series is the left fold of the rows' deltas in ascending time
\* order, seeded with 0; a point is green exactly when its value is strictly
\* above the previous value (0 before the first row), so a row with delta 0
\* is red.
C6_CvdFold ==
    output.kind = "result" =>
        LET cvd  == output.cvd
            keys == SortedSeq(DOMAIN aggregated)
            prev(i) == IF i = 1 THEN 0 ELSE cvd[i - 1].value
        IN  /\ Len(cvd) = Len(keys)
            /\ \A i \in 1..Len(cvd) :
                  /\ cvd[i].time = keys[i]
                  /\ i > 1 => cvd[i - 1].time < cvd[i].time
                  /\ cvd[i].delta = aggregated[keys[i]].delta
                  /\ cvd[i].value = prev(i) + aggregated[keys[i]].delta
                  /\ cvd[i].color = "green" <=> cvd[i].value > prev(i)
                  /\ cvd[i].color \in {"green", "red"}
                  /\ cvd[i].delta = 0 => cvd[i].color = "red"

\* A series with a rising point, a falling point and a row of delta 0, the
\* last one after the cumulative value has left 0.
C6_Witness ==
    /\ output.kind = "result"
    /\ \E i, j, k \in 1..Len(output.cvd) :
          /\ output.cvd[i].color = "green"
          /\ output.cvd[j].delta < 0
          /\ k > 1
          /\ output.cvd[k].delta = 0
          /\ output.cvd[k].value # 0
          /\ output.cvd[k].color = "red"

\* C7: a venue is recorded as failed by transport only after its history
\* call has failed three times (the first attempt and two retries), and no
\* venue is attempted more than three times in a run.
C7_RetryPolicy ==
    /\ \A i \in 1..Len(all_metadata) :
          all_metadata[i].data_quality = "error" =>
              attempts[all_metadata[i].exchange_id] = 3
    /\ \A e \in ExchangeIds : attempts[e] <= 3

\* C8: a venue that answered 9 candles is rejected (success false, data
\* quality invalid, not among the venues that count for the quorum), and a
\* venue that answered 10 candles is accepted.
C8_Validation ==
    \A i \in 1..Len(all_metadata) :
        LET m == all_metadata[i]
        IN  /\ m.candles_count = 9 =>
                  /\ ~m.success
                  /\ m.data_quality = "invalid"
                  /\ m.exchange_id \notin DOMAIN all_exchange_data
            /\ m.candles_count = 10 =>
                  /\ m.success
                  /\ m.data_quality = "valid"

\* C9: while the history call of one venue is pending, the fetch of every
\* venue not yet fetched can start.
C9_ConcurrentDispatch ==
    \A e, w \in ExchangeIds :
        (pending = e /\ attempts[w] = 0) => ENABLED CallVenue(w)

ReportedKeys ==
    UNION {{NormalizeTs(all_exchange_data[e][i].timestamp) : i \in 1..Len(all_exchange_data[e])} :
              e \in DOMAIN all_exchange_data}

\* C11: the consensus rows of a result are exactly one row per timestamp in
\* the union of the timestamps of the successful venues' series, in strictly
\* ascending order of time; every row has at least one participating venue,
\* namely as many as reported that timestamp, and there is no row for a
\* timestamp no venue reported.
C11_RowsAreUnionAscending ==
    output.kind = "result" =>
        LET fp == output.footprint
        IN  /\ \A i \in 1..Len(fp) : \A j \in 1..Len(fp) : i < j => fp[i].time < fp[j].time
            /\ {fp[i].time : i \in 1..Len(fp)} = ReportedKeys
            /\ DOMAIN aggregated = ReportedKeys
            /\ \A i \in 1..Len(fp) :
                  /\ fp[i].exchanges >= 1
                  /\ fp[i].exchanges = Cardinality(VenuesAt(fp[i].time))

\* A result whose last row comes from fewer venues than its first row: the
\* union is larger than the series of some successful venue.
C11_Witness ==
    /\ output.kind = "result"
    /\ Len(output.footprint) = MaxCandles
    /\ output.footprint[MaxCandles].exchanges < output.footprint[1].exchanges
    /\ output.footprint[1].exchanges >= 3

\* The input with every "-" dropped and every letter in upper case, built
\* character by character.
RECURSIVE Canonical(_)
Canonical(s) ==
    IF s = <<>> THEN <<>>
    ELSE (IF Head(s) = "-" THEN <<>>
          ELSE <<IF Head(s) \in DOMAIN UpperCase THEN UpperCase[Head(s)] ELSE Head(s)>>)
         \o Canonical(Tail(s))

\* normalize_symbol has returned through one of its fallbacks: the symbol
\* has no USDT / USD suffix, or the exchange id is not one it lists.
FellBack ==
    /\ mode = "normalize_symbol"
    /\ call_ret # <<>>
    /\ \/ call_args.exchange_id \notin ExchangeIds
       \/ ~(endswith(Canonical(call_args.symbol), USDT) \/ endswith(Canonical(call_args.symbol), USD))

\* C12 as stated: through its fallbacks normalize_symbol returns the input
\* string unchanged, character for character.
C12_FallbackUnchanged == FellBack => call_ret[1] = call_args.symbol

\* C12, amended: through its fallbacks normalize_symbol returns the input
\* in upper case with every "-" removed; the result equals the input exactly
\* when the input already is in upper case and holds no "-".
C12_FallbackCanonical ==
    FellBack =>
        /\ call_ret[1] = Canonical(call_args.symbol)
        /\ (call_ret[1] = call_args.symbol) <=>
              \A i \in 1..Len(call_args.symbol) :
                  call_args.symbol[i] # "-" /\ call_args.symbol[i] \notin DOMAIN UpperCase

\* A fallback return that differs from the input: "b-EUR" gives "BEUR".
C12_Witness ==
    /\ FellBack
    /\ call_args.symbol = <<"b", "-", "E", "U", "R">>
    /\ call_ret[1] = <<"B", "E", "U", "R">>

\* What each configured venue appends to the base.
NativeSuffix ==
    [binanceus |-> USDT,
     okx       |-> <<"/">> \o USDT,
     gateio    |-> <<"/">> \o USDT,
     kraken    |-> <<"/">> \o USD,
     kucoin    |-> <<"-">> \o USDT,
     coinbase  |-> <<"-">> \o USD]

\* normalize_symbol has been called for a configured venue with a symbol
\* made of an upper-case base without "-", an optional "-" and USDT or USD.
CanonicalCall ==
    /\ mode = "normalize_symbol"
    /\ call_ret # <<>>
    /\ call_args.exchange_id \in ExchangeIds
    /\ call_args.parts.quote \in {USDT, USD}
    /\ Canonical(call_args.parts.base) = call_args.parts.base

\* C13: for every configured venue and base B, the forms B-USDT and BUSDT
\* give the same result, and so do B-USD and BUSD: the result is the base
\* (the input without its separator and its USDT or USD suffix) followed by
\* the venue's table entry, whichever of the two forms was passed.
C13_SeparatorIrrelevant ==
    CanonicalCall =>
        /\ call_ret[1] = call_args.parts.base \o NativeSuffix[call_args.exchange_id]
        /\ call_ret[1] = normalize_symbol(call_args.parts.base \o call_args.parts.quote,
                                          call_args.exchange_id)
        /\ call_ret[1] = normalize_symbol(call_args.parts.base \o <<"-">> \o call_args.parts.quote,
                                          call_args.exchange_id)

\* "BU-USDT" passed for kraken has come back as "BU/USD".
C13_Witness ==
    /\ CanonicalCall
    /\ call_args.symbol = <<"B", "U", "-">> \o USDT
    /\ call_args.exchange_id = "kraken"
    /\ call_ret[1] = <<"B", "U", "/">> \o USD

AtLeastOneAndAHalfAverage(result, i) ==
    LET fp == result.footprint
    IN  2 * fp[i].volume * Len(fp) >= 3 * SumSeq([k \in 1..Len(fp) |-> fp[k].volume])

\* C15: in every row of a result the CVD/delta divergence flag equals
\* (direction up and delta < 0) or (direction down and delta > 0), the
\* direction being the marker of the row's CVD point (green = up, red =
\* down); the high-value flag equals that flag and "the row's volume is at
\* least 1.5 times the average row volume".  Footprint and order-flow table
\* carry the same two flags.
C15_DivergenceFlags ==
    (mode = "repeat" /\ output.kind = "result") =>
        \A i \in 1..Len(output.footprint) :
            LET row  == output.footprint[i]
                up   == output.cvd[i].color = "green"
                down == output.cvd[i].color = "red"
                flag == (up /\ row.delta < 0) \/ (down /\ row.delta > 0)
            IN  /\ row.divergence = flag
                /\ row.highValueDivergence = (flag /\ AtLeastOneAndAHalfAverage(output, i))
                /\ output.orderflowTable[i].divergence = row.divergence
                /\ output.orderflowTable[i].highValueDivergence = row.highValueDivergence

\* A result with a row of at least 1.5 times the average volume whose CVD
\* went down on a negative delta, and a row whose CVD went up.
C15_Witness ==
    /\ mode = "repeat"
    /\ output.kind = "result"
    /\ \E i \in 1..Len(output.footprint) :
          /\ AtLeastOneAndAHalfAverage(output, i)
          /\ output.footprint[i].delta < 0
          /\ output.cvd[i].color = "red"
    /\ \E i \in 1..Len(output.footprint) :
          /\ output.footprint[i].delta > 0
          /\ output.cvd[i].color = "green"

\* C16: the divergences list of a result holds one alert for every row
\* whose cross-venue divergence flag (coefficient of variation of the
\* venues' deltas above 0.20) is set and none for any other row; each alert
\* carries the row's time, the variance and the per-venue deltas.
C16_AlertPerDivergentBucket ==
    (mode = "repeat" /\ output.kind = "result") =>
        /\ \A t \in DOMAIN aggregated :
              aggregated[t].divergence.has_divergence =>
                  Cardinality({k \in 1..Len(output.divergences) : output.divergences[k].time = t}) = 1
        /\ \A k \in 1..Len(output.divergences) :
              /\ aggregated[output.divergences[k].time].divergence.has_divergence
              /\ {"time", "variance", "deltas"} \subseteq DOMAIN output.divergences[k]

\* The kline a parsed candle of a run was made from: the one with its
\* timestamp, open and close.
KlineOf(candle) ==
    CHOOSE kline \in {RawCandle(i, shape) : i \in 1..MaxCandles, shape \in {"up", "down", "flat"}} :
        /\ kline.ts = candle.timestamp
        /\ kline.open = candle.open
        /\ kline.close = candle.close

\* C17: the buy/sell split follows the capability flag: every candle of a
\* venue whose has_taker_volume is true (binanceus, okx) has the reported
\* taker-buy volume as buy volume and volume minus taker-buy as sell
\* volume; only venues whose flag is false get an estimated split.
C17_SplitFollowsFlag ==
    mode = "run" =>
        \A e \in DOMAIN all_exchange_data :
            EXCHANGES[e].has_taker_volume =>
                \A k \in 1..Len(all_exchange_data[e]) :
                    LET candle == all_exchange_data[e][k]
                    IN  /\ candle.buy_volume = 100 * KlineOf(candle).taker_buy
                        /\ candle.sell_volume = candle.volume - 100 * KlineOf(candle).taker_buy

\* The interval of the request whose candles are aggregated, in seconds.
AggIntervalSeconds == 3

\* The candles of the input as (venue, timestamp in seconds) pairs.
AggCandleStamps ==
    UNION {{<<e, NormalizeTs(all_exchange_data[e][i].timestamp)>> :
               i \in 1..Len(all_exchange_data[e])} : e \in DOMAIN all_exchange_data}

\* C18: every row key is aligned to the interval of the request (key mod
\* interval = 0), so that candles of different venues that fall into the same
\* interval [t, t + interval) are aggregated into the same row, whatever
\* timestamps the venues report.
C18_KeysAligned ==
    (mode = "aggregate" /\ output.kind = "aggregated") =>
        /\ \A t \in DOMAIN aggregated : t % AggIntervalSeconds = 0
        /\ \A c1 \in AggCandleStamps, c2 \in AggCandleStamps :
              (c1[2] \div AggIntervalSeconds = c2[2] \div AggIntervalSeconds) =>
                  \E t \in DOMAIN aggregated :
                      {EXCHANGES[c1[1]].name, EXCHANGES[c2[1]].name} \subseteq
                          {aggregated[t].exchanges[k].exchange : k \in 1..Len(aggregated[t].exchanges)}

\* The footprint has been built.
FootprintBuilt == mode = "build_footprint_from_trades" /\ call_ret # <<>>

\* Total quantity of the trades of the call that fall into the bucket
\* starting at bucket_start and have maker flag m.
BucketQuantity(bucket_start, m) ==
    SumSeq([i \in 1..Len(call_args.trades) |->
        LET trade == call_args.trades[i]
        IN  IF /\ (trade.T \div call_args.interval_ms) * call_args.interval_ms = bucket_start
               /\ trade.m = m
            THEN trade.q ELSE 0])

\* C19: build_footprint_from_trades puts a trade with time T into the bucket
\* floor(T / interval_ms) * interval_ms; in every bucket the buy (ask) volume
\* is the quantity of its trades with m false and the sell (bid) volume that
\* of its trades with m true, the bucket's delta is buy minus sell, and buy
\* plus sell over all buckets is the total quantity of the trades.
C19_FootprintBuckets ==
    FootprintBuilt =>
        LET fp      == call_ret[1]
            trades  == call_args.trades
            Start(T) == (T \div call_args.interval_ms) * call_args.interval_ms
        IN  /\ {fp[k].time : k \in 1..Len(fp)} =
                   {Start(trades[i].T) \div MS_PER_SECOND : i \in 1..Len(trades)}
            /\ \A k \in 1..Len(fp) :
                  \E i \in 1..Len(trades) :
                      /\ fp[k].time = Start(trades[i].T) \div MS_PER_SECOND
                      /\ SumSeq(fp[k].askVol) = BucketQuantity(Start(trades[i].T), FALSE)
                      /\ SumSeq(fp[k].bidVol) = BucketQuantity(Start(trades[i].T), TRUE)
                      /\ fp[k].delta = SumSeq(fp[k].askVol) - SumSeq(fp[k].bidVol)
            /\ SumSeq([k \in 1..Len(fp) |-> SumSeq(fp[k].askVol) + SumSeq(fp[k].bidVol)]) =
                   SumSeq([i \in 1..Len(trades) |-> trades[i].q])
            /\ \A k \in 1..Len(fp) : \A j \in 1..Len(fp) : k < j => fp[k].time < fp[j].time

\* Two trades of one candle at different times, one bought and one sold,
\* have given one bucket that holds both volumes.
C19_Witness ==
    /\ FootprintBuilt
    /\ Len(call_args.trades) = 2
    /\ call_args.trades[1].m # call_args.trades[2].m
    /\ call_args.trades[1].T # call_args.trades[2].T
    /\ Len(call_ret[1]) = 1
    /\ SumSeq(call_ret[1][1].askVol) > 0
    /\ SumSeq(call_ret[1][1].bidVol) > 0

\* The first candle of venue e stamped t (in seconds).
FirstCandleAt(e, t) ==
    LET series == all_exchange_data[e]
        first  == CHOOSE i \in 1..Len(series) :
                      /\ NormalizeTs(series[i].timestamp) = t
                      /\ \A j \in 1..(i - 1) : NormalizeTs(series[j].timestamp) # t
    IN  series[first]

\* Sum over the venues that take part in row t of their candles' field.
VenueSum(t, field) ==
    SumSeq([k \in 1..Len(ExchangeOrder) |->
        IF ExchangeOrder[k] \in VenuesAt(t) THEN FirstCandleAt(ExchangeOrder[k], t)[field] ELSE 0])

\* C20: in every consensus row volume, buy_volume and sell_volume are the
\* plain (unweighted) sums of the participating venues' candle values, and
\* volume = buy_volume + sell_volume, whether the candles come from the
\* taker path, the 55/45 path or the 50/50 path; the order-flow table shows
\* the same figures.
C20_VolumesArePlainSums ==
    (mode = "repeat" /\ output.kind = "result") =>
        /\ \A t \in DOMAIN aggregated :
              /\ aggregated[t].volume = VenueSum(t, "volume")
              /\ aggregated[t].buy_volume = VenueSum(t, "buy_volume")
              /\ aggregated[t].sell_volume = VenueSum(t, "sell_volume")
              /\ aggregated[t].volume = aggregated[t].buy_volume + aggregated[t].sell_volume
        /\ \A i \in 1..Len(output.orderflowTable) :
              LET line == output.orderflowTable[i]
              IN  /\ line.volume = aggregated[line.time].volume
                  /\ line.buyVol = aggregated[line.time].buy_volume
                  /\ line.sellVol = aggregated[line.time].sell_volume
                  /\ line.volume = line.buyVol + line.sellVol

\* A row fed by all three paths at once: a Binance surge candle (taker
\* split 4 / 16), a falling OKX candle (45 / 55) and a 50 / 50 venue.
C20_Witness ==
    /\ mode = "repeat"
    /\ output.kind = "result"
    /\ \E t \in DOMAIN aggregated :
          /\ {"binanceus", "okx", "kraken"} \subseteq VenuesAt(t)
          /\ FirstCandleAt("binanceus", t).volume = 2000
          /\ FirstCandleAt("okx", t).delta < 0
          /\ aggregated[t].volume > 2000

\* C21: every per-venue result a fetcher has returned has a data quality
\* among valid, empty, invalid and error; a venue that answered with an
\* empty list is recorded as empty and a venue whose call raised as error,
\* whichever of the three fetchers handled it.
C21_DataQuality ==
    mode = "run" =>
        \A i \in 1..Len(all_metadata) :
            /\ all_metadata[i].data_quality \in {"valid", "empty", "invalid", "error"}
            /\ all_metadata[i].error = "No candles returned" => all_metadata[i].data_quality = "empty"
            /\ all_metadata[i].error = "exception" => all_metadata[i].data_quality = "error"

IsNoSeparator(c) == c \notin {"-", "/"}

\* C23: for every configured venue and every canonical symbol (an
\* upper-case base, an optional "-", USDT or USD) the history call carries
\* the symbol normalize_symbol gives for that venue (compared here without
\* "-" and "/", so that a venue's own separator does not count), never the
\* caller's raw symbol; for the Binance and OKX fetchers as for the generic
\* one.
C23_CallUsesNormalizedSymbol ==
    (/\ mode = "request"
     /\ call_ret # <<>>
     /\ call_args.parts.quote \in {USDT, USD}
     /\ call_args.parts.base # <<>>
     /\ Canonical(call_args.parts.base) = call_args.parts.base) =>
        SelectSeq(call_ret[1], IsNoSeparator) =
            SelectSeq(normalize_symbol(call_args.symbol, call_args.exchange_id), IsNoSeparator)

\* The venues whose fetcher has been called in the run.
Attempted == {e \in ExchangeIds : attempts[e] > 0}

\* C24: in a result the success rate is (venues with success = true) /
\* (venues attempted) and the average response time is the mean of the
\* response times of all attempted venues, the failed ones included.
C24_Diagnostics ==
    (mode = "repeat" /\ output.kind = "result") =>
        /\ output.metadata.success_rate.num = Cardinality(DOMAIN all_exchange_data)
        /\ output.metadata.success_rate.num =
               Cardinality({i \in 1..Len(all_metadata) : all_metadata[i].success})
        /\ output.metadata.success_rate.den = Cardinality(Attempted)
        /\ output.metadata.avg_response_time_ms.num =
               SumSeq([k \in 1..Len(FetchOrder) |->
                   IF FetchOrder[k] \in Attempted THEN all_metadata[k].response_time_ms ELSE 0])
        /\ output.metadata.avg_response_time_ms.den = Cardinality(Attempted)

\* A result of a run in which two venues failed, after a longer time than
\* the others took to answer.
C24_Witness ==
    /\ mode = "repeat"
    /\ output.kind = "result"
    /\ output.metadata.success_rate = [num |-> 4, den |-> 6]
    /\ \E i \in 1..Len(all_metadata) :
          /\ ~all_metadata[i].success
          /\ all_metadata[i].response_time_ms > all_metadata[1].response_time_ms
    /\ all_metadata[1].success

\* C25: the CVD/delta divergence flag is false in every row of every result
\* (the CVD rises exactly when the row's delta is positive and drops exactly
\* when it is negative), so highValueDivergence is false in every row and
\* the list of divergences is empty.
C25_NoCvdDeltaDivergence ==
    (mode = "run" /\ output.kind = "result") =>
        /\ \A i \in 1..Len(output.footprint) :
              /\ ~output.footprint[i].divergence
              /\ ~output.footprint[i].highValueDivergence
              /\ ~output.orderflowTable[i].divergence
              /\ ~output.orderflowTable[i].highValueDivergence
              /\ (output.cvd[i].color = "green") <=> (output.footprint[i].delta > 0)
              /\ output.cvd[i].value - output.footprint[i].delta =
                     (IF i = 1 THEN 0 ELSE output.cvd[i - 1].value)
        /\ output.divergences = <<>>

\* A result whose CVD has gone up, down and stayed level, and which has a
\* row with a negative delta while the CVD is still above 0.
C25_Witness ==
    /\ mode = "run"
    /\ output.kind = "result"
    /\ \E i \in 1..Len(output.footprint) :
          output.footprint[i].delta < 0 /\ output.cvd[i].value > 0
    /\ \E i \in 1..Len(output.footprint) : output.footprint[i].delta > 0
    /\ \E i \in 1..Len(output.footprint) : output.footprint[i].delta = 0

\* The venues fetch_ohlcv_from_exchange is called for.
GenericVenues == {"gateio", "kraken", "kucoin", "coinbase"}

\* Priority-weighted delta sum of row t over the venues other than the
\* generic ones.
TakerWeightedDelta(t) ==
    SumSeq([k \in 1..Len(ExchangeOrder) |->
        IF ExchangeOrder[k] \in VenuesAt(t) \ GenericVenues
        THEN FirstCandleAt(ExchangeOrder[k], t).delta * EXCHANGES[ExchangeOrder[k]].priority
        ELSE 0])

\* C26: every candle of a generic venue (gateio, kraken, kucoin, coinbase)
\* has buy_volume = sell_volume = volume / 2 and delta 0, whatever its
\* prices; in a row these venues add nothing to the priority-weighted delta
\* sum, yet they count in the divisor and in the number of venues.
C26_GenericVenuesAddNoDelta ==
    mode = "run" =>
        /\ \A e \in DOMAIN all_exchange_data \cap GenericVenues :
              \A i \in 1..Len(all_exchange_data[e]) :
                  /\ 2 * all_exchange_data[e][i].buy_volume = all_exchange_data[e][i].volume
                  /\ 2 * all_exchange_data[e][i].sell_volume = all_exchange_data[e][i].volume
                  /\ all_exchange_data[e][i].delta = 0
        /\ output.kind = "result" =>
              \A t \in DOMAIN aggregated :
                  /\ aggregated[t].exchange_count = Cardinality(VenuesAt(t))
                  /\ aggregated[t].delta * Cardinality(VenuesAt(t)) =
                         TakerWeightedDelta(t) * (DeltaScale \div 100)

\* A row of a result in which Binance and three generic venues take part,
\* the generic candles rising: its delta is a quarter of Binance's weighted
\* delta.
C26_Witness ==
    /\ mode = "run"
    /\ output.kind = "result"
    /\ \E t \in DOMAIN aggregated :
          /\ Cardinality(VenuesAt(t)) = 4
          /\ Cardinality(VenuesAt(t) \cap GenericVenues) = 3
          /\ "binanceus" \in VenuesAt(t)
          /\ FirstCandleAt("kraken", t).close > FirstCandleAt("kraken", t).open
          /\ aggregated[t].delta # 0
          /\ 4 * aggregated[t].delta = TakerWeightedDelta(t) * (DeltaScale \div 100)

\* C27: each venue contributes at most one candle to a row: of several
\* candles of a venue with the row's timestamp only the first in series
\* order is counted; so a row's exchange_count is at most the number of
\* venues in the input and no venue is listed twice among its participants.
C27_OneCandlePerVenue ==
    (mode = "aggregate" /\ output.kind = "aggregated") =>
        \A t \in DOMAIN aggregated :
            LET row == aggregated[t]
            IN  /\ row.exchange_count <= Cardinality(DOMAIN all_exchange_data)
                /\ row.exchange_count = Len(row.exchanges)
                /\ \A i \in 1..Len(row.exchanges) : \A j \in 1..Len(row.exchanges) :
                      row.exchanges[i].exchange = row.exchanges[j].exchange => i = j
                /\ \A i \in 1..Len(row.exchanges) :
                      LET e == CHOOSE x \in ExchangeIds : EXCHANGES[x].name = row.exchanges[i].exchange
                      IN  /\ e \in VenuesAt(t)
                          /\ row.exchanges[i].delta = FirstCandleAt(e, t).delta
                          /\ row.exchanges[i].volume = FirstCandleAt(e, t).volume
                /\ row.volume = VenueSum(t, "volume")

\* A row with all three venues, one of which holds a second candle with the
\* row's timestamp and another delta, listed after a candle of a later bar.
C27_Witness ==
    /\ mode = "aggregate"
    /\ output.kind = "aggregated"
    /\ \E t \in DOMAIN aggregated :
          /\ aggregated[t].exchange_count = 3
          /\ \E i \in 1..Len(all_exchange_data["kraken"]) :
                /\ i >= 3
                /\ NormalizeTs(all_exchange_data["kraken"][i].timestamp) = t
                /\ all_exchange_data["kraken"][i].delta # FirstCandleAt("kraken", t).delta

\* The call of fetch_binance_trades has returned.
TradesReturned == mode = "fetch_binance_trades" /\ call_ret # <<>>

\* C28: the pagination loop of fetch_binance_trades terminates for every
\* start_time and end_time: the cursor current_start strictly increases in
\* every iteration after which the loop continues, it never passes
\* end_time + 1, and the call eventually returns.
C28_PaginationTerminates ==
    /\ [][(mode = "fetch_binance_trades" /\ call_ret' = <<>>) =>
             /\ call_locals'.current_start > call_locals.current_start
             /\ call_locals'.current_start <= call_args.end_time + 1
             /\ Len(call_locals'.all_trades) = Len(call_locals.all_trades) + PageLimit]_vars
    /\ <>TradesReturned

\* The call has returned after three requests: two full pages and a last,
\* shorter one.
C28_Witness ==
    /\ TradesReturned
    /\ call_locals.requests = 3
    /\ ~call_locals.failed
    /\ Len(call_ret[1]) > 2 * PageLimit - 1

\* The trades of the venue inside the window of the call.
TradesInWindow ==
    LET InWindow(trade) == call_args.start_time <= trade.T /\ trade.T <= call_args.end_time
    IN  SelectSeq(call_args.venue_trades, InWindow)

\* C29: when no request has failed, fetch_binance_trades returns every
\* trade the venue holds with start_time <= T <= end_time exactly once and
\* in time order, however the trade times are distributed.
C29_ReturnsEveryTrade ==
    (TradesReturned /\ ~call_locals.failed) => call_ret[1] = TradesInWindow

\* The two shapes analyze_multi_exchange_orderflow may return.
IsErrorObject(o) == o.kind = "error" /\ "error" \in DOMAIN o /\ "footprint" \notin DOMAIN o

IsResultObject(o) ==
    /\ o.kind = "result"
    /\ "error" \notin DOMAIN o
    /\ Len(o.cvd) = Len(o.footprint)
    /\ Len(o.orderflowTable) = Len(o.footprint)
    /\ o.metadata.total_candles = Len(o.footprint)
    /\ \A i \in 1..Len(o.footprint) :
          /\ o.cvd[i].time = o.footprint[i].time
          /\ o.orderflowTable[i].time = o.footprint[i].time
          /\ i > 1 => o.footprint[i - 1].time < o.footprint[i].time

\* C30: the analysis never raises: every execution returns a value, and
\* that value always has one of two shapes: an
\* error object (when the quorum is missed or the aggregation raised) or a
\* result object whose footprint, cvd and orderflowTable have the same
\* length, one entry per consensus row in the same ascending time order,
\* with total_candles equal to that length and without an 'error' key.
C30_ErrorOrResult ==
    mode = "repeat" =>
        /\ call_ret # <<>> => output = call_ret[Len(call_ret)]
        /\ \A i \in 1..Len(call_ret) :
              /\ IsErrorObject(call_ret[i]) \/ IsResultObject(call_ret[i])
              /\ IsErrorObject(call_ret[i]) <=>
                    (QuorumFailed(all_exchange_data) \/ AggregationRaises(all_exchange_data))
              /\ IsResultObject(call_ret[i]) =>
                    {call_ret[i].footprint[k].time : k \in 1..Len(call_ret[i].footprint)} =
                        DOMAIN aggregated

\* The quorum was met, a candle without a timestamp made the aggregation
\* raise, and the analysis returned the error object.
C30_Witness ==
    /\ mode = "repeat"
    /\ call_ret # <<>>
    /\ ~QuorumFailed(all_exchange_data)
    /\ AggregationRaises(all_exchange_data)
    /\ output = AnalysisFailed

====
